---- MODULE Spec2Model ----
(***************************************************************************)
(* Model of github.com/sthussey/ska: the graph package's node model        *)
(* (DirectoryNode, FileNode), the filesystem source that builds graphs     *)
(* (source/fs BuildGraph / walkDir) and the merge operation Union.         *)
(*                                                                         *)
(* Nodes live in a heap: heap[id] is the object a Go pointer `id` refers   *)
(* to, so that sharing between graphs (Union links overlay nodes into the  *)
(* control graph) and in-place mutation are visible.                       *)
(***************************************************************************)
EXTENDS Integers, Sequences, FiniteSets, TLC

\* ---------------------------------------------------------------- bounds
MaxGraphs == 3     \* graphs built (one control, the rest overlays)
MaxEntries == 3    \* directory entries walked over all graphs (roots not counted)

\* Names of directory entries and of root directories.
Keys == {"a", "b", "c.tmpl"}
RootKeys == {"root", "other"}
\* File contents read by walkDir: the empty file and two non-empty ones.
Contents == {<<>>, <<1>>, <<2>>}
\* The outcomes of os.ReadFile: the content, or an error.
ReadOf(content) == [content |-> content, err |-> <<>>]
Reads == {ReadOf(c) : c \in Contents} \cup {[content |-> <<>>, err |-> <<"read">>]}

Nil == 0

\* ------------------------------------------------------------ graph.go
NODETYPE_DIRECTORY == "DIRECTORY"
NODETYPE_FILE == "FILE"

ErrorOnCollision == "ERROR"
OverwriteOnCollision == "OVERWRITE"
YieldOnCollision == "YIELD"
DefaultOnCollision == "DEFAULT"

FILEACTION_COPY == "COPY"
FILEACTION_TEMPLATE == "TEMPLATE"

\* strings.HasSuffix(name, ".tmpl") over the names of the model.
HasSuffixTmpl(name) == name \in {"c.tmpl"}

\* md5.Sum over the contents of the model: a digest per content, distinct
\* contents of the model having distinct digests. NoHash is the nil datahash.
NoHash == <<>>
Md5Sum(src) == <<"md5", src>>

NewDirectoryNode(name) ==
    [type |-> NODETYPE_DIRECTORY, name |-> name, children |-> <<>>,
     parent |-> Nil, action |-> "", datahash |-> NoHash]

NewFileNode(name) ==
    [type |-> NODETYPE_FILE, name |-> name, children |-> <<>>,
     parent |-> Nil,
     action |-> IF HasSuffixTmpl(name) THEN FILEACTION_TEMPLATE ELSE FILEACTION_COPY,
     datahash |-> NoHash]

\* n.Key(), n.Type(), n.Children() of the node at `id` in heap h.
Key(h, id) == h[id].name
Type(h, id) == h[id].type
Children(h, id) ==
    IF h[id].type = NODETYPE_DIRECTORY THEN h[id].children ELSE <<>>

\* The error AddChild returns: nil from a DirectoryNode, an error from a
\* FileNode.
AddChildErr(h, id) ==
    IF h[id].type = NODETYPE_FILE
    THEN <<"cannot add child to a file node">>
    ELSE <<>>

\* (mutant) a FileNode takes the link as a DirectoryNode does.
AddChildToAny(h, id, child) == [h EXCEPT ![id].children = Append(@, child)]

\* (mutant) the new link is put in front of the directory's links.
AddChildInFront(h, id, child) ==
    IF h[id].type = NODETYPE_DIRECTORY
    THEN [h EXCEPT ![id].children = <<child>> \o @]
    ELSE h

\* d.AddChild(child) / f.AddChild(child): the heap afterwards. A FileNode
\* returns an error and changes nothing.
AddChild(h, id, child) ==
    IF h[id].type = NODETYPE_DIRECTORY
    THEN [h EXCEPT ![id].children = Append(@, child)]
    ELSE h

SetParent(h, id, parent) == [h EXCEPT ![id].parent = parent]

\* f.SetContent(src): empty content is a no-op, otherwise the digest is stored.
\* (content_type, which Union never reads, is not modelled.)
SetContent(h, id, src) ==
    IF Len(src) = 0 THEN h ELSE [h EXCEPT ![id].datahash = Md5Sum(src)]

\* f.SetAction(action): the error it returns, and the heap afterwards. Any
\* action but COPY and TEMPLATE is refused and nothing is stored.
SetActionErr(h, id, action) ==
    IF action # FILEACTION_COPY /\ action # FILEACTION_TEMPLATE
    THEN <<"invalid action">>
    ELSE <<>>

\* (mutant) the action is stored before it is looked at.
SetActionUnchecked(h, id, action) == [h EXCEPT ![id].action = action]

SetAction(h, id, action) ==
    IF SetActionErr(h, id, action) # <<>>
    THEN h
    ELSE [h EXCEPT ![id].action = action]

\* ------------------------------------------------------------ Union
\* A Go error value: <<>> is nil, otherwise the chain of messages, outermost
\* first (fmt.Errorf("...: %w", err) prepends its message).
NoErr == <<>>
Wrap(msg, err) == <<msg>> \o err

\* slices.Contains(s, k)
Contains(s, k) == \E i \in 1..Len(s) : s[i] = k

\* (mutant) a call without overlays is refused.
ReturnNoGraph(h, control) == [heap |-> h, node |-> Nil, err |-> <<"no graphs">>]

\* The result of Union's zero-overlay return: control itself, no error.
ReturnControl(h, control) == [heap |-> h, node |-> control, err |-> NoErr]

\* (mutant) only the first overlay's key is compared with the control's.
MismatchedFirstRoot(h, control, add) ==
    Len(add) >= 1 /\ Key(h, add[1]) # Key(h, control)

\* The root check: some overlay's key differs from the control's key.
MismatchedRoots(h, control, add) ==
    \E i \in 1..Len(add) : Key(h, add[i]) # Key(h, control)

\* (mutant) the key is not recorded.
RecordNothing(mergedKeys, k) == mergedKeys

\* mergedKeys = append(mergedKeys, c.Key())
RecordMerged(mergedKeys, k) == Append(mergedKeys, k)

\* The children of one graph n_graph whose key is k, in child order.
MatchingIn(h, n_graph, k) ==
    SelectSeq(Children(h, n_graph), LAMBDA ch : Key(h, ch) = k)

\* (mutant) matches are gathered from the first add graph only.
MatchingFromFirstOnly(h, add, k) ==
    IF Len(add) = 0 THEN <<>> ELSE MatchingIn(h, Head(add), k)

\* matchingChildrenFromAdd: over the add graphs in order, each graph's
\* children with key k.
RECURSIVE MatchingChildrenFromAdd(_, _, _)
MatchingChildrenFromAdd(h, add, k) ==
    IF Len(add) = 0 THEN <<>>
    ELSE MatchingIn(h, Head(add), k) \o MatchingChildrenFromAdd(h, Tail(add), k)

\* The final loop: every child of addChildren (as listed when the loop
\* starts) whose key is not in mergedKeys is added to u; AddChild's error
\* is dropped.
RECURSIVE AppendNew(_, _, _, _)
AppendNew(h, u, fromAdd, mergedKeys) ==
    IF Len(fromAdd) = 0 THEN h
    ELSE AppendNew(IF ~Contains(mergedKeys, Key(h, Head(fromAdd)))
                   THEN AddChild(h, u, Head(fromAdd))
                   ELSE h,
                   u, Tail(fromAdd), mergedKeys)

\* (mutant) the overlays are passed on whole.
AddWhole(add) == add

\* add[1:], the overlays after the first.
AddRest(add) == Tail(add)

\* A call of Union that does not return: the recursion goes deeper than any
\* recursion over the nodes of the heap and the overlays given can, and the
\* Go runtime ends the program. StackDepth is that depth, Overflow what the
\* program is left with in place of an error value.
StackDepth(h, add) == Len(h) + Len(add) + 1
Overflow == <<"stack overflow">>

RECURSIVE UnionAt(_, _, _, _, _)
RECURSIVE MergeControlChildren(_, _, _, _, _, _)

\* The loop over control.Children() (listed once, when the loop starts):
\* cs is what is left of that list. Yields the heap, the keys merged and
\* the first error of a recursive Union.
MergeControlChildren(depth, h, opts, cs, add, mergedKeys) ==
    IF Len(cs) = 0 THEN [heap |-> h, mergedKeys |-> mergedKeys, err |-> NoErr]
    ELSE LET c == Head(cs)
             keys == RecordMerged(mergedKeys, Key(h, c))
             r == UnionAt(depth, h, opts, c,
                          MatchingChildrenFromAdd(h, add, Key(h, c)))
         IN  IF r.err = Overflow
             THEN [heap |-> r.heap, mergedKeys |-> keys, err |-> Overflow]
             ELSE IF r.err # NoErr
             THEN [heap |-> r.heap, mergedKeys |-> keys,
                   err |-> Wrap("error merging children", r.err)]
             ELSE MergeControlChildren(depth, r.heap, opts, Tail(cs), add, keys)

\* Union(opts, control, add...) with room for depth nested calls: the heap
\* afterwards, the node returned (Nil with an error) and the error.
UnionAt(depth, h, opts, control, add) ==
    IF depth = 0 THEN [heap |-> h, node |-> Nil, err |-> Overflow]
    ELSE IF Len(add) = 0 THEN ReturnControl(h, control)
    ELSE IF MismatchedRoots(h, control, add)
    THEN [heap |-> h, node |-> Nil, err |-> <<"mismatched roots">>]
    ELSE
    LET m == MergeControlChildren(depth - 1, h, opts, Children(h, control),
                                  add, <<>>)
    IN  IF m.err # NoErr THEN [heap |-> m.heap, node |-> Nil, err |-> m.err]
        ELSE
        LET a == IF Len(add) > 1
                 THEN UnionAt(depth - 1, m.heap, opts, Head(add), AddRest(add))
                 ELSE [heap |-> m.heap, node |-> Head(add), err |-> NoErr]
        IN  IF a.err = Overflow
            THEN [heap |-> a.heap, node |-> Nil, err |-> Overflow]
            ELSE IF a.err # NoErr
            THEN [heap |-> a.heap, node |-> Nil,
                  err |-> Wrap("error merging external children", a.err)]
            ELSE [heap |-> IF a.node # Nil
                           THEN AppendNew(a.heap, control,
                                          Children(a.heap, a.node), m.mergedKeys)
                           ELSE a.heap,
                  node |-> control, err |-> NoErr]

\* Union(opts, control, add...) as the program calls it.
Union(h, opts, control, add) ==
    UnionAt(StackDepth(h, add), h, opts, control, add)

\* ------------------------------------------------------------ state
VARIABLES
    heap,    \* the nodes allocated so far: heap[id] is the object of pointer id
    graphs,  \* the roots BuildGraph has returned, in order
    walk,    \* the walkDir calls in progress: the directory each one fills
    phase,   \* "build", then "merged" after a Union call, "remerged" after a second
    call,    \* the arguments of the last Union call
    ret,     \* what the last Union call returned
    pre      \* the heap when the last Union call started

vars == <<heap, graphs, walk, phase, call, ret, pre>>

CollisionActions == {ErrorOnCollision, OverwriteOnCollision, YieldOnCollision}

NoCall == [opts |-> [DefaultCollisionAction |-> DefaultOnCollision],
           control |-> Nil, add |-> <<>>]

Init ==
    /\ heap = <<>>
    /\ graphs = <<>>
    /\ walk = <<>>
    /\ phase = "build"
    /\ call = NoCall
    /\ ret = [node |-> Nil, err |-> NoErr]
    /\ pre = <<>>

NodeIds(h) == 1..Len(h)
ChildKeys(h, id) == [i \in 1..Len(Children(h, id)) |-> Key(h, Children(h, id)[i])]
KeySet(h, id) == {Key(h, Children(h, id)[i]) : i \in 1..Len(Children(h, id))}

\* The directory entries walked so far: the nodes that have a parent.
Entries(h) == Cardinality({id \in NodeIds(h) : h[id].parent # Nil})

\* ------------------------------------------------------------ source/fs
\* BuildGraph up to its call of walkDir: the root directory node is made.
BuildGraph(name) ==
    /\ phase = "build"
    /\ walk = <<>>
    /\ Len(graphs) < MaxGraphs
    /\ heap' = Append(heap, NewDirectoryNode(name))
    /\ walk' = <<Len(heap) + 1>>
    /\ UNCHANGED <<graphs, phase, call, ret, pre>>

\* walkDir meets a directory entry: a directory node is made, linked both
\* ways and walked next. A directory holds no two entries of one name. The
\* order of the entries is left open: os.ReadDir lists them by name, and the
\* package's other callers (graph_test.go) add children in any order.
WalkDirEntry(name) ==
    /\ walk # <<>>
    /\ Entries(heap) < MaxEntries
    /\ LET parentNode == walk[Len(walk)]
           dirNode == Len(heap) + 1
       IN  /\ name \notin KeySet(heap, parentNode)
           /\ heap' = AddChild(SetParent(Append(heap, NewDirectoryNode(name)),
                                         dirNode, parentNode),
                               parentNode, dirNode)
           /\ walk' = Append(walk, dirNode)
    /\ UNCHANGED <<graphs, phase, call, ret, pre>>

\* walkDir meets a file entry: a file node is made, its content set when the
\* file could be read (read is the outcome of os.ReadFile), and linked both
\* ways.
WalkFileEntry(name, read) ==
    /\ walk # <<>>
    /\ Entries(heap) < MaxEntries
    /\ LET parentNode == walk[Len(walk)]
           fileNode == Len(heap) + 1
           made == Append(heap, NewFileNode(name))
           filled == IF read.err = NoErr
                     THEN SetContent(made, fileNode, read.content)
                     ELSE made
       IN  /\ name \notin KeySet(heap, parentNode)
           /\ heap' = AddChild(SetParent(filled, fileNode, parentNode),
                               parentNode, fileNode)
    /\ UNCHANGED <<graphs, walk, phase, call, ret, pre>>

\* walkDir returns; the outermost return is BuildGraph returning the root.
WalkReturn ==
    /\ walk # <<>>
    /\ walk' = SubSeq(walk, 1, Len(walk) - 1)
    /\ graphs' = IF Len(walk) = 1 THEN Append(graphs, walk[1]) ELSE graphs
    /\ UNCHANGED <<heap, phase, call, ret, pre>>

\* ------------------------------------------------------------ calls of Union
UnionCall(opts, control, add, next) ==
    LET r == Union(heap, opts, control, add)
    IN  /\ heap' = r.heap
        /\ ret' = [node |-> r.node, err |-> r.err]
        /\ call' = [opts |-> opts, control |-> control, add |-> add]
        /\ pre' = heap
        /\ phase' = next
        /\ UNCHANGED <<graphs, walk>>

\* Union(opts, T): one graph has been built and T is any node of it; there
\* are no overlays.
UnionAlone(opts, control) ==
    /\ phase = "build"
    /\ walk = <<>>
    /\ Len(graphs) = 1
    /\ UnionCall(opts, control, <<>>, "merged")

\* Union(opts, control, overlays...): of the graphs built, the first is the
\* control and the others are the overlays, in the order built.
UnionGraphs(opts) ==
    /\ phase = "build"
    /\ walk = <<>>
    /\ Len(graphs) >= 2
    /\ UnionCall(opts, Head(graphs), Tail(graphs), "merged")

\* Union(opts, M, B): the graph a successful Union returned is merged again
\* with one of the overlays of that call.
UnionAgain(opts, i) ==
    /\ phase = "merged"
    /\ ret.err = NoErr
    /\ i \in 1..Len(call.add)
    /\ opts = call.opts
    /\ UnionCall(opts, ret.node, <<call.add[i]>>, "remerged")

\* The steps of the program, its inputs drawn from the given sets: the names
\* of root directories and of entries, the outcomes of reading a file, and
\* the collision policies passed to a Union with overlays (a Union without
\* overlays is called with every policy).
NextOver(rootKeys, keys, reads, policies) ==
    \/ \E name \in rootKeys : BuildGraph(name)
    \/ \E name \in keys : WalkDirEntry(name)
    \/ \E name \in keys, read \in reads : WalkFileEntry(name, read)
    \/ WalkReturn
    \/ \E d \in CollisionActions, control \in NodeIds(heap) :
          UnionAlone([DefaultCollisionAction |-> d], control)
    \/ \E d \in policies : UnionGraphs([DefaultCollisionAction |-> d])
    \/ \E d \in policies, i \in 1..MaxGraphs :
          UnionAgain([DefaultCollisionAction |-> d], i)

\* Graphs of one root name whose files all read the same: the shape of the
\* graphs is what varies.
Next == NextOver({"root"}, Keys, {ReadOf(<<1>>)}, {ErrorOnCollision})

Spec == Init /\ [][Next]_vars

\* Small graphs of either root name.
NextRoots == NextOver(RootKeys, {"a"}, {ReadOf(<<1>>)}, {ErrorOnCollision})

SpecRoots == Init /\ [][NextRoots]_vars

\* Graphs of one root name and two entry names, with every outcome of
\* reading a file and every collision policy.
NextFiles == NextOver({"root"}, {"a", "b"}, Reads, CollisionActions)

SpecFiles == Init /\ [][NextFiles]_vars

\* Graphs of one root name and two entry names whose files read either of
\* two contents, merged under OverwriteOnCollision.
NextOverwrite ==
    NextOver({"root"}, {"a", "b"}, {ReadOf(<<1>>), ReadOf(<<2>>)},
             {OverwriteOnCollision})

SpecOverwrite == Init /\ [][NextOverwrite]_vars

\* ------------------------------------------------------------ node methods
\* The elements of a sequence.
Range(s) == {s[i] : i \in 1..Len(s)}

\* A call of a node method by the caller, on the graphs built and before
\* they are merged: `call` holds the method (op), its receiver (control) and
\* its argument (arg), `ret` the error returned. The walk has made its own
\* calls of AddChild, SetParent and SetContent before it.
ActionArgs == {FILEACTION_COPY, FILEACTION_TEMPLATE, "MOVE", ""}

MethodCall(op, id, arg, after, err) ==
    /\ phase = "build"
    /\ walk = <<>>
    /\ Len(graphs) >= 2
    /\ heap' = after
    /\ pre' = heap
    /\ ret' = [node |-> Nil, err |-> err]
    /\ call' = [opts |-> NoCall.opts, control |-> id, add |-> <<>>,
                op |-> op, arg |-> arg]
    /\ phase' = "called"
    /\ UNCHANGED <<graphs, walk>>

CallAddChild(id, child) ==
    MethodCall("AddChild", id, child, AddChild(heap, id, child), AddChildErr(heap, id))

CallSetParent(id, parent) ==
    MethodCall("SetParent", id, parent, SetParent(heap, id, parent), NoErr)

CallSetContent(id, src) ==
    /\ Type(heap, id) = NODETYPE_FILE
    /\ MethodCall("SetContent", id, src, SetContent(heap, id, src), NoErr)

CallSetAction(id, action) ==
    /\ Type(heap, id) = NODETYPE_FILE
    /\ MethodCall("SetAction", id, action, SetAction(heap, id, action),
                  SetActionErr(heap, id, action))

\* Union over the graphs built, after a call of a node method on them.
UnionAfterCall(opts) ==
    /\ phase = "called"
    /\ UnionCall(opts, Head(graphs), Tail(graphs), "merged after call")

\* Graphs of one root name and one entry name, with a call of any node
\* method before Union. The nodes handed to AddChild and SetParent are roots
\* of the graphs built.
NextMethods ==
    \/ NextOver({"root"}, {"a"}, {ReadOf(<<1>>)}, {ErrorOnCollision})
    \/ \E id \in NodeIds(heap), child \in Range(graphs) : CallAddChild(id, child)
    \/ \E id \in NodeIds(heap), parent \in Range(graphs) \cup {Nil} :
          CallSetParent(id, parent)
    \/ \E id \in NodeIds(heap), src \in Contents : CallSetContent(id, src)
    \/ \E id \in NodeIds(heap), action \in ActionArgs : CallSetAction(id, action)
    \/ UnionAfterCall([DefaultCollisionAction |-> ErrorOnCollision])

SpecMethods == Init /\ [][NextMethods]_vars

\* Graphs of one root name and two entry names, one of them a template's,
\* with a call of SetAction before Union.
NextActions ==
    \/ NextOver({"root"}, {"a", "c.tmpl"}, {ReadOf(<<1>>)}, {ErrorOnCollision})
    \/ \E id \in NodeIds(heap), action \in ActionArgs : CallSetAction(id, action)
    \/ UnionAfterCall([DefaultCollisionAction |-> ErrorOnCollision])

SpecActions == Init /\ [][NextActions]_vars

\* Union(opts, control, overlays...) with one of the graphs built supplied
\* once more, after the others: the same tree in two overlay positions.
UnionRepeated(opts, i) ==
    /\ phase = "build"
    /\ walk = <<>>
    /\ Len(graphs) >= 2
    /\ i \in 2..Len(graphs)
    /\ UnionCall(opts, Head(graphs), Tail(graphs) \o <<graphs[i]>>, "merged")

\* Graphs of two root names and two entry names, merged with or without an
\* overlay supplied twice.
NextRepeated ==
    \/ NextOver(RootKeys, {"a", "b"}, {ReadOf(<<1>>)}, {ErrorOnCollision})
    \/ \E i \in 1..MaxGraphs :
          UnionRepeated([DefaultCollisionAction |-> ErrorOnCollision], i)

SpecRepeated == Init /\ [][NextRepeated]_vars

\* ------------------------------------------------------------ properties
\* The nodes reachable from the nodes S over child links in heap h.
RECURSIVE ReachFrom(_, _)
ReachFrom(h, S) ==
    LET N == S \cup UNION {{Children(h, id)[i] : i \in 1..Len(Children(h, id))} : id \in S}
    IN  IF N = S THEN S ELSE ReachFrom(h, N)

Subtree(h, id) == ReachFrom(h, {id})

\* Every node of id's subtree in h1 is the same object in h2: same children
\* in the same order, same parent, same content.
SameSubtree(h1, h2, id) == \A n \in Subtree(h1, id) : h2[n] = h1[n]

NoDuplicates(s) == \A i, j \in 1..Len(s) : i # j => s[i] # s[j]

\* A Union with overlays has returned / has returned without error.
Merged == phase = "merged" /\ Len(call.add) >= 1
Succeeded == ret.err = NoErr /\ ret.node # Nil

\* The arguments of the last call, control first.
Inputs == <<call.control>> \o call.add

\* The children with key k of the nodes of the sequence ins, in order.
RECURSIVE AtKey(_, _, _)
AtKey(h, ins, k) ==
    IF Len(ins) = 0 THEN <<>>
    ELSE SelectSeq(Children(h, Head(ins)), LAMBDA c : Key(h, c) = k)
         \o AtKey(h, Tail(ins), k)

\* The child keys of the nodes of ins, in order, each key once (where it
\* is first met).
RECURSIVE AllKeys(_, _)
AllKeys(h, ins) ==
    IF Len(ins) = 0 THEN <<>>
    ELSE ChildKeys(h, Head(ins)) \o AllKeys(h, Tail(ins))

RECURSIVE FirstOnly(_)
FirstOnly(s) ==
    IF Len(s) = 0 THEN <<>>
    ELSE LET f == FirstOnly(SubSeq(s, 1, Len(s) - 1))
         IN  IF s[Len(s)] \in Range(f) THEN f ELSE Append(f, s[Len(s)])

\* Nodes that lie at one path (ins) have one type, and so below them.
RECURSIVE SameTypes(_, _)
SameTypes(h, ins) ==
    /\ \A i, j \in 1..Len(ins) : Type(h, ins[i]) = Type(h, ins[j])
    /\ \A k \in Range(AllKeys(h, ins)) : SameTypes(h, AtKey(h, ins, k))

\* No directory below the nodes ins has two children of one key.
UniqueSiblings(h, ins) ==
    \A n \in ReachFrom(h, Range(ins)) : NoDuplicates(ChildKeys(h, n))

\* C1: after a successful Union of a control and overlays in which sibling
\* keys are unique and same-path nodes have one type, every directory of the
\* result has exactly one child per key that some input has at that path:
\* none missing, none twice, whichever overlay holds it.
RECURSIVE OneChildPerKey(_, _, _, _)
OneChildPerKey(h, m, p, ins) ==
    Type(h, m) = NODETYPE_DIRECTORY =>
        /\ NoDuplicates(ChildKeys(h, m))
        /\ KeySet(h, m) = Range(AllKeys(p, ins))
        /\ \A i \in 1..Len(Children(h, m)) :
              OneChildPerKey(h, Children(h, m)[i], p,
                             AtKey(p, ins, Key(h, Children(h, m)[i])))

C1_EveryKeyOnce ==
    (Merged /\ Succeeded /\ UniqueSiblings(pre, Inputs) /\ SameTypes(pre, Inputs))
        => OneChildPerKey(heap, ret.node, pre, Inputs)

\* Three inputs each held one file of its own name in the shared root, and
\* the merged root has exactly these 3 children.
C1_Witness ==
    /\ Merged /\ Succeeded
    /\ Len(call.add) = 2
    /\ \A i \in 1..3 : /\ Len(Children(pre, Inputs[i])) = 1
                       /\ Type(pre, Children(pre, Inputs[i])[1]) = NODETYPE_FILE
    /\ Cardinality({Key(pre, Children(pre, Inputs[i])[1]) : i \in 1..3}) = 3
    /\ Len(Children(heap, ret.node)) = 3

\* C2: when some overlay's root key (the first's or a later one's) differs
\* from the control's, Union returns an error and no node, and no node of
\* any graph has changed.
RootsDiffer == \E i \in 1..Len(call.add) : Key(pre, call.add[i]) # Key(pre, call.control)

C2_MismatchedRootFailsUntouched ==
    (Merged /\ RootsDiffer)
        => /\ ret.err # NoErr
           /\ ret.node = Nil
           /\ heap = pre

\* The second overlay's root differs while the first one's matches and has
\* a child the control lacks, which a merge would have appended.
C2_Witness ==
    /\ Merged
    /\ Len(call.add) = 2
    /\ Key(pre, call.add[1]) = Key(pre, call.control)
    /\ Key(pre, call.add[2]) # Key(pre, call.control)
    /\ Len(Children(pre, call.control)) = 0
    /\ Len(Children(pre, call.add[1])) = 1
    /\ ret.err = <<"mismatched roots">>

\* C3: after a successful Union, in every directory of the result the
\* children the control had come first, in their order, and the children
\* taken from overlays follow in the order of the overlays and, within one
\* overlay, in its child order. ins are the input nodes at the directory's
\* path, control first; the directory is the first of them.
RECURSIVE InInputOrder(_, _, _, _)
InInputOrder(h, m, p, ins) ==
    Type(h, m) = NODETYPE_DIRECTORY =>
        /\ m = Head(ins)
        /\ Len(Children(h, m)) >= Len(Children(p, m))
        /\ SubSeq(Children(h, m), 1, Len(Children(p, m))) = Children(p, m)
        /\ ChildKeys(h, m) =
              SelectSeq(FirstOnly(AllKeys(p, ins)), LAMBDA k : k \in KeySet(h, m))
        /\ \A i \in 1..Len(Children(h, m)) :
              InInputOrder(h, Children(h, m)[i], p,
                           AtKey(p, ins, Key(h, Children(h, m)[i])))

C3_ControlFirstThenOverlays ==
    (Merged /\ Succeeded) => InInputOrder(heap, ret.node, pre, Inputs)

\* The control had one child, and two overlays each gave the merged root
\* a child of its own after them.
C3_Witness ==
    /\ Merged /\ Succeeded
    /\ Len(call.add) = 2
    /\ Len(Children(pre, call.control)) = 1
    /\ Len(Children(heap, call.control)) = 3
    /\ heap[Children(heap, call.control)[2]].parent = call.add[1]
    /\ heap[Children(heap, call.control)[3]].parent = call.add[2]

\* C7: Union(opts, T) with no overlays returns T itself, without error,
\* and T's subtree is as it was, for a Directory or a File T and every
\* collision policy.
C7_NoOverlaysReturnsControl ==
    (phase = "merged" /\ call.add = <<>>)
        => /\ ret.node = call.control
           /\ ret.err = NoErr
           /\ SameSubtree(pre, heap, call.control)
           /\ Subtree(heap, call.control) = Subtree(pre, call.control)

\* Union was called without overlays on a directory that holds a file and a
\* directory, under the Yield policy.
C7_Witness ==
    /\ phase = "merged" /\ call.add = <<>>
    /\ call.opts.DefaultCollisionAction = YieldOnCollision
    /\ Type(heap, call.control) = NODETYPE_DIRECTORY
    /\ ret.node = call.control
    /\ {Type(heap, c) : c \in Range(Children(heap, call.control))}
          = {NODETYPE_DIRECTORY, NODETYPE_FILE}

\* C8: after M = Union(opts, A, B) succeeded, Union(opts, M, B) succeeds,
\* returns M and leaves every node of M as it was: the same children in the
\* same order at every path, nothing of B linked a second time. (The first
\* call merges all the graphs built, so with two graphs built it was
\* Union(opts, A, B).)
C8_MergingAgainAddsNothing ==
    (phase = "remerged" /\ Len(graphs) = 2)
        => /\ ret.err = NoErr
           /\ ret.node = call.control
           /\ SameSubtree(pre, heap, call.control)
           /\ Subtree(heap, call.control) = Subtree(pre, call.control)

\* The first merge had one overlay B and linked a child of B's root into M;
\* B was then merged into M again.
C8_Witness ==
    /\ phase = "remerged"
    /\ Len(graphs) = 2
    /\ \E i \in 1..Len(Children(pre, call.control)) :
          pre[Children(pre, call.control)[i]].parent = call.add[1]
    /\ \E i \in 1..Len(Children(pre, call.control)) :
          pre[Children(pre, call.control)[i]].parent = call.control

\* The pairs <<c, o>> of a node c below the control-side node cn and a node
\* o below the overlay-side node on that lie at one path (cn and on
\* themselves included).
RECURSIVE SamePath(_, _, _)
SamePath(h, cn, on) ==
    {<<cn, on>>} \cup
    UNION {SamePath(h, c, o) :
             <<c, o>> \in {x \in Range(Children(h, cn)) \X Range(Children(h, on)) :
                             Key(h, x[1]) = Key(h, x[2])}}

\* The same-path pairs of the last call: a control node and an overlay node.
CallPairs ==
    IF \A i \in 1..Len(call.add) : Key(pre, call.add[i]) = Key(pre, call.control)
    THEN UNION {SamePath(pre, call.control, call.add[i]) : i \in 1..Len(call.add)}
    ELSE {}

\* One of the pair is a File and the other a Directory.
TypeClash(x) == Type(pre, x[1]) # Type(pre, x[2])

\* Both are Files that have fingerprints, and the fingerprints differ.
ContentClash(x) ==
    /\ Type(pre, x[1]) = NODETYPE_FILE
    /\ Type(pre, x[2]) = NODETYPE_FILE
    /\ pre[x[1]].datahash # NoHash
    /\ pre[x[2]].datahash # NoHash
    /\ pre[x[1]].datahash # pre[x[2]].datahash

\* C4: when a control node and an overlay node at one path share a key and
\* one is a File, the other a Directory, Union fails, whatever the policy.
C4_TypeMismatchFails ==
    (Merged /\ \E x \in CallPairs : TypeClash(x))
        => (ret.err # NoErr /\ ret.node = Nil)

\* C5: under ErrorOnCollision, when a control File and an overlay File at
\* one path have fingerprints that differ, Union fails and returns no node.
C5_ContentCollisionFails ==
    (/\ Merged
     /\ call.opts.DefaultCollisionAction = ErrorOnCollision
     /\ \E x \in CallPairs : ContentClash(x))
        => (ret.err # NoErr /\ ret.node = Nil)

\* C6: under OverwriteOnCollision, when a control File and overlay Files at
\* one path have differing fingerprints, Union succeeds, the node at that
\* path of the result is the control's File with its fingerprint as before,
\* and the overlay's File is no node of the result.
C6_OverwriteKeepsControlFile ==
    (Merged /\ call.opts.DefaultCollisionAction = OverwriteOnCollision)
        => \A x \in CallPairs :
              ContentClash(x) =>
                 /\ Succeeded
                 /\ ret.node = call.control
                 /\ heap[x[1]] = pre[x[1]]
                 /\ x[1] \in Subtree(heap, ret.node)
                 /\ x[2] \notin Subtree(heap, ret.node)
                 /\ SelectSeq(Children(heap, pre[x[1]].parent),
                              LAMBDA c : Key(heap, c) = Key(pre, x[1])) = <<x[1]>>

\* Under Overwrite the control held a file that two overlays hold too, each
\* with a content other than the control's; the merge succeeded.
C6_Witness ==
    /\ Merged /\ Succeeded
    /\ call.opts.DefaultCollisionAction = OverwriteOnCollision
    /\ Len(call.add) = 2
    /\ \A i \in 1..2 : \E x \in SamePath(pre, call.control, call.add[i]) :
          ContentClash(x)

\* C9: after Union(opts, control, o1, ..., on) every overlay graph has at
\* every path the children it had, in the same order.
C9_OverlaysUntouched ==
    Merged => \A i \in 1..Len(call.add) :
                 /\ SameSubtree(pre, heap, call.add[i])
                 /\ Subtree(heap, call.add[i]) = Subtree(pre, call.add[i])

\* C10: in the graph a successful Union returns, every child link of every
\* directory leads to a node whose parent is that directory.
ParentConsistent(h, root) ==
    \A d \in Subtree(h, root) :
        \A i \in 1..Len(Children(h, d)) : h[Children(h, d)[i]].parent = d

C10_ParentConsistentAfterMerge ==
    (Merged /\ Succeeded) => ParentConsistent(heap, ret.node)

\* C11: a File never has children. No File of the heap holds a child link,
\* whatever calls of AddChild, SetParent, SetContent, SetAction and Union
\* were made, and AddChild on a File returns an error and changes nothing.
C11_FileHasNoChildren ==
    /\ \A id \in NodeIds(heap) :
          Type(heap, id) = NODETYPE_FILE
             => (heap[id].children = <<>> /\ Children(heap, id) = <<>>)
    /\ (phase = "called" /\ call.op = "AddChild"
          /\ Type(pre, call.control) = NODETYPE_FILE)
          => (ret.err # NoErr /\ heap = pre)

\* After a call of a node method, Union merged a control File with an
\* overlay Directory of its key that has a child: Union's own AddChild on
\* the File was made.
C11_Witness ==
    /\ phase = "merged after call" /\ Succeeded
    /\ \E x \in CallPairs :
          /\ Type(pre, x[1]) = NODETYPE_FILE
          /\ Type(pre, x[2]) = NODETYPE_DIRECTORY
          /\ Len(Children(pre, x[2])) >= 1

\* The Files of the heap.
Files(h) == {id \in NodeIds(h) : Type(h, id) = NODETYPE_FILE}

\* C12: a File's action is always COPY or TEMPLATE. As constructed it is
\* TEMPLATE exactly when the name ends in .tmpl and COPY otherwise; SetAction
\* with COPY or TEMPLATE returns no error and stores the value; SetAction
\* with any other value returns an error and leaves the action, and all
\* else, as it was.
C12_ActionCopyOrTemplate ==
    /\ \A f \in Files(heap) :
          heap[f].action \in {FILEACTION_COPY, FILEACTION_TEMPLATE}
    /\ phase \in {"build", "merged", "remerged"}
          => \A f \in Files(heap) :
                heap[f].action =
                   IF heap[f].name = "c.tmpl" THEN FILEACTION_TEMPLATE
                                              ELSE FILEACTION_COPY
    /\ (phase = "called" /\ call.op = "SetAction")
          => IF call.arg \in {FILEACTION_COPY, FILEACTION_TEMPLATE}
             THEN /\ ret.err = NoErr
                  /\ heap = [pre EXCEPT ![call.control].action = call.arg]
             ELSE /\ ret.err # NoErr
                  /\ heap = pre

\* SetAction("MOVE") was refused on a File constructed as a template, next
\* to a File constructed with COPY.
C12_Witness ==
    /\ phase = "called"
    /\ call.op = "SetAction"
    /\ call.arg = "MOVE"
    /\ ret.err # NoErr
    /\ heap[call.control].name = "c.tmpl"
    /\ heap[call.control].action = FILEACTION_TEMPLATE
    /\ \E f \in Files(heap) :
          heap[f].name = "a" /\ heap[f].action = FILEACTION_COPY

\* The inputs are separate trees: no node lies below two of them.
SeparateTrees(h, ins) ==
    \A i, j \in 1..Len(ins) :
        i # j => Subtree(h, ins[i]) \cap Subtree(h, ins[j]) = {}

\* C13: Union preserves sibling-key uniqueness. When the control and the
\* overlays are separate trees in which no directory has two children of one
\* key, no directory of the result of a successful Union has two children of
\* one key, whatever the types of the nodes and however many overlays hold
\* the key.
C13_SiblingKeysStayUnique ==
    (Merged /\ Succeeded /\ SeparateTrees(pre, Inputs) /\ UniqueSiblings(pre, Inputs))
        => \A d \in Subtree(heap, ret.node) : NoDuplicates(ChildKeys(heap, d))

\* The control and two overlays held one key in their roots, as a File in
\* one and as a Directory in another, and the Union succeeded.
C13_Witness ==
    /\ Merged /\ Succeeded
    /\ Len(call.add) = 2
    /\ SeparateTrees(pre, Inputs)
    /\ \E k \in Keys :
          /\ \A i \in 1..3 : k \in KeySet(pre, Inputs[i])
          /\ ~SameTypes(pre, AtKey(pre, Inputs, k))

\* C14: every Union call on finite trees returns, and what it returns is the
\* control node with no error, or an error with no graph; the recursion
\* never outruns the nodes and overlays it was given. This holds too when
\* one overlay tree is supplied in two overlay positions.
C14_UnionReturns ==
    phase \in {"merged", "remerged"}
        => /\ ret.err # Overflow
           /\ \/ ret.err = NoErr /\ ret.node = call.control
              \/ ret.err # NoErr /\ ret.node = Nil

\* Union returned the control after merging an overlay supplied twice, whose
\* root holds a directory with a child of its own that the control lacks.
C14_Witness ==
    /\ phase = "merged"
    /\ Succeeded
    /\ ret.node = call.control
    /\ \E i, j \in 1..Len(call.add) :
          /\ i # j
          /\ call.add[i] = call.add[j]
          /\ \E c \in Range(Children(pre, call.add[i])) :
                /\ Len(Children(pre, c)) >= 1
                /\ Len(Children(pre, call.control)) = 0

====
